---- MODULE Spec2Model ----
(***************************************************************************)
(* Model of the chunk -> translate -> merge -> TTS pipeline of             *)
(* backend/services/text_chunker.py and backend/services/llm_tts.py.       *)
(*                                                                         *)
(* A Python str is a sequence of one-character strings.                    *)
(*                                                                         *)
(* Spec            one process_text request, step by step                  *)
(* ChunkerSpec     chunk_text and merge_chunks on every bounded text       *)
(* NormalizerSpec  _strip_think_tags and _parse_llm_response on            *)
(*                 completions of many shapes                              *)
(***************************************************************************)
EXTENDS Integers, Sequences, FiniteSets, TLC

VARIABLES
    max_chunk_size,   \* TextChunker.max_chunk_size
    enable_chunking,  \* TextChunker.enable_chunking
    input_text,       \* the argument of chunk_text / process_text
    chunks,           \* the list chunk_text returned
    merged,           \* the string merge_chunks returned (None before)
    pc,               \* position of the caller
    i,                \* process_text: the loop variable i, from 1 (0: unbound)
    simplified_parts, \* process_text: simplified_parts
    all_red_flags,    \* process_text: all_red_flags
    raw,              \* _ask_and_parse: raw
    parsed,           \* _ask_and_parse: result
    calls,            \* the chunk indices a provider call was issued for, in order
    completions,      \* the completions the provider returned, in order
    provider_fault,   \* the chunk whose provider call raised, 0 if none did
    is_busy,          \* SimplyLegal_main.is_busy
    returned,         \* what process_text returned
    error             \* the exception that left process_text

chunkerVars == <<max_chunk_size, enable_chunking, input_text, chunks, merged>>

requestVars == <<i, simplified_parts, all_red_flags, raw, parsed, calls, completions,
                 provider_fault, is_busy, returned, error>>

vars == <<chunkerVars, pc, requestVars>>

None == <<"None">>

\* ------------------------------------------------------------------------
\* Python str helpers
\* ------------------------------------------------------------------------

\* str.strip() and the regex class \s, on the characters the model uses
Whitespace == {" ", "\n", "\t", "\r"}

\* the regex class [.!?]
Terminators == {".", "!", "?"}

SetMin(S) == CHOOSE x \in S : \A y \in S : x <= y
SetMax(S) == CHOOSE x \in S : \A y \in S : x >= y

\* str.strip()
Strip(s) ==
    LET keep == {k \in 1..Len(s) : s[k] \notin Whitespace}
    IN  IF keep = {} THEN <<>> ELSE SubSeq(s, SetMin(keep), SetMax(keep))

\* separator.join(parts)
RECURSIVE Join(_, _)
Join(separator, parts) ==
    IF parts = <<>> THEN <<>>
    ELSE IF Len(parts) = 1 THEN parts[1]
    ELSE parts[1] \o separator \o Join(separator, Tail(parts))

\* first position >= k of s that holds no character of the class: the end of
\* the run of class characters that starts at k
SkipClass(s, k, class) ==
    LET stops == {j \in k..Len(s) : s[j] \notin class}
    IN  IF k > Len(s) THEN k
        ELSE IF stops = {} THEN Len(s) + 1
        ELSE SetMin(stops)

\* re.split(r"\n\n+", s): the pieces between the runs of two or more newlines
RECURSIVE SplitParagraphsFrom(_, _)
SplitParagraphsFrom(s, k) ==
    LET breaks == {j \in k..(Len(s) - 1) : s[j] = "\n" /\ s[j + 1] = "\n"}
    IN  IF breaks = {} THEN <<SubSeq(s, k, Len(s))>>
        ELSE LET b == SetMin(breaks)
             IN  <<SubSeq(s, k, b - 1)>> \o SplitParagraphsFrom(s, SkipClass(s, b, {"\n"}))

SplitParagraphs(s) == SplitParagraphsFrom(s, 1)

\* re.split(r'(?<=[.!?])\s+', s): the pieces between the whitespace runs that
\* follow a terminator
RECURSIVE SplitSentencesFrom(_, _)
SplitSentencesFrom(s, k) ==
    LET breaks == {j \in k..Len(s) : j > 1 /\ s[j] \in Whitespace /\ s[j - 1] \in Terminators}
    IN  IF breaks = {} THEN <<SubSeq(s, k, Len(s))>>
        ELSE LET b == SetMin(breaks)
             IN  <<SubSeq(s, k, b - 1)>> \o SplitSentencesFrom(s, SkipClass(s, b, Whitespace))

SplitSentences(s) == SplitSentencesFrom(s, 1)

\* ------------------------------------------------------------------------
\* TextChunker
\* ------------------------------------------------------------------------

\* _chunk_by_paragraphs: the stripped, non-empty paragraphs
RECURSIVE KeepParagraphs(_)
KeepParagraphs(paragraphs) ==
    IF paragraphs = <<>> THEN <<>>
    ELSE LET para == Strip(Head(paragraphs))
         IN  IF para = <<>> THEN KeepParagraphs(Tail(paragraphs))
             ELSE <<para>> \o KeepParagraphs(Tail(paragraphs))

chunk_by_paragraphs(text, max) == KeepParagraphs(SplitParagraphs(Strip(text)))

\* the test of line 71: the sentence still fits into the current chunk
FitsBad(current_chunk, sentence, max) == Len(current_chunk) + Len(sentence) <= max
Fits(current_chunk, sentence, max) == Len(current_chunk) + Len(sentence) + 1 <= max

\* the else branch of lines 76-79: close the current chunk, start a new one
CloseChunkBad(final_chunks, current_chunk) == final_chunks
CloseChunk(final_chunks, current_chunk) ==
    IF current_chunk /= <<>> THEN Append(final_chunks, current_chunk) ELSE final_chunks

\* the inner loop of _chunk_by_sentences (lines 69-82) over one oversized chunk
RECURSIVE PackSentences(_, _, _, _)
PackSentences(sentences, current_chunk, final_chunks, max) ==
    IF sentences = <<>>
    THEN IF current_chunk /= <<>> THEN Append(final_chunks, current_chunk)
         ELSE final_chunks
    ELSE LET sentence == Head(sentences)
         IN  IF Fits(current_chunk, sentence, max)
             THEN PackSentences(Tail(sentences),
                      IF current_chunk /= <<>> THEN current_chunk \o <<" ">> \o sentence
                      ELSE sentence,
                      final_chunks, max)
             ELSE PackSentences(Tail(sentences), sentence,
                      CloseChunk(final_chunks, current_chunk), max)

\* _chunk_by_sentences: the outer loop (lines 59-84)
RECURSIVE SentencesLoop(_, _, _)
SentencesLoop(cs, final_chunks, max) ==
    IF cs = <<>> THEN final_chunks
    ELSE LET chunk == Head(cs)
         IN  IF Len(chunk) <= max
             THEN SentencesLoop(Tail(cs), Append(final_chunks, chunk), max)
             ELSE SentencesLoop(Tail(cs),
                      PackSentences(SplitSentences(chunk), <<>>, final_chunks, max), max)

chunk_by_sentences(cs, max) == SentencesLoop(cs, <<>>, max)

\* the test of line 25: the text is returned as one chunk
SingleChunkBad(text, max, enabled) == ~enabled \/ Len(text) < max
SingleChunk(text, max, enabled) == ~enabled \/ Len(text) <= max

\* chunk_text
chunk_text(text, max, enabled) ==
    IF SingleChunk(text, max, enabled) THEN <<text>>
    ELSE chunk_by_sentences(chunk_by_paragraphs(text, max), max)

\* the chunks merge_chunks keeps: stripped, non-empty
RECURSIVE StripNonEmpty(_)
StripNonEmpty(cs) ==
    IF cs = <<>> THEN <<>>
    ELSE IF Strip(Head(cs)) = <<>> THEN StripNonEmpty(Tail(cs))
    ELSE <<Strip(Head(cs))>> \o StripNonEmpty(Tail(cs))

DefaultSeparator == <<"\n", "\n">>

\* merge_chunks
merge_chunksBad(cs, separator) == Join(<<"\n">>, StripNonEmpty(cs))
merge_chunks(cs, separator) == Join(separator, StripNonEmpty(cs))

\* the characters of the bounded texts
Alphabet == {"a", ".", " ", "\n"}

\* ------------------------------------------------------------------------
\* Python values, as json.loads builds them
\* ------------------------------------------------------------------------

JNull == [ty |-> "null"]
JBool(b) == [ty |-> "bool", b |-> b]
JInt(n) == [ty |-> "int", n |-> n]
JStr(s) == [ty |-> "str", s |-> s]
JList(items) == [ty |-> "list", items |-> items]
JDict(keys, vals) == [ty |-> "dict", keys |-> keys, vals |-> vals]

\* The backquote character. (A string literal of the module cannot hold one.)
Backtick == "BACKQUOTE"

Digits == <<"0", "1", "2", "3", "4", "5", "6", "7", "8", "9">>
DigitSet == {Digits[d] : d \in 1..10}
DigitValue(c) == (CHOOSE d \in 1..10 : Digits[d] = c) - 1

\* s[k], or "" past the ends
At(s, k) == IF k \in 1..Len(s) THEN s[k] ELSE ""

\* s holds p at position k
HasPrefixAt(s, k, p) == k >= 1 /\ k + Len(p) - 1 <= Len(s) /\ SubSeq(s, k, k + Len(p) - 1) = p

\* dict[key] = val: the last value of a repeated key wins, at the key's first place
DictSet(d, key, val) ==
    IF \E j \in 1..Len(d.keys) : d.keys[j] = key
    THEN LET j == CHOOSE j \in 1..Len(d.keys) : d.keys[j] = key
         IN  JDict(d.keys, [d.vals EXCEPT ![j] = val])
    ELSE JDict(Append(d.keys, key), Append(d.vals, val))

\* dict.get(key, default)
DictGet(d, key, default) ==
    IF \E j \in 1..Len(d.keys) : d.keys[j] = key
    THEN d.vals[CHOOSE j \in 1..Len(d.keys) : d.keys[j] = key]
    ELSE default

\* ------------------------------------------------------------------------
\* json.loads, for documents of strings (with the escapes \" \\ \/ \n \t \r),
\* unsigned integers, true, false, null, arrays and objects
\* ------------------------------------------------------------------------

ParseFail == [ok |-> FALSE, v |-> JNull, k |-> 0]
ParseOk(v, k) == [ok |-> TRUE, v |-> v, k |-> k]

ControlChars == {"\n", "\t", "\r"}

Escapes == [c \in {"\"", "\\", "/", "n", "t", "r"} |->
              CASE c = "n" -> "\n" [] c = "t" -> "\t" [] c = "r" -> "\r" [] OTHER -> c]

\* the characters of a string literal from position k on, up to its closing quote
RECURSIVE ScanString(_, _, _)
ScanString(s, k, acc) ==
    LET stops == {j \in k..Len(s) : s[j] \in {"\"", "\\"} \cup ControlChars}
        j == SetMin(stops)
        plain == acc \o SubSeq(s, k, j - 1)
    IN  IF stops = {} THEN ParseFail
        ELSE IF s[j] = "\"" THEN ParseOk(JStr(plain), j + 1)
        ELSE IF s[j] \in ControlChars THEN ParseFail
        ELSE IF At(s, j + 1) \in DOMAIN Escapes
             THEN ScanString(s, j + 2, Append(plain, Escapes[s[j + 1]]))
             ELSE ParseFail

\* the value of the digits s[k..e-1]
RECURSIVE DigitsValue(_, _, _, _)
DigitsValue(s, k, e, acc) ==
    IF k >= e THEN acc ELSE DigitsValue(s, k + 1, e, 10 * acc + DigitValue(s[k]))

\* a number at k: 0, or a run of digits that starts with 1..9
ParseNumber(s, k) ==
    IF s[k] = "0" THEN ParseOk(JInt(0), k + 1)
    ELSE LET e == SkipClass(s, k, DigitSet)
         IN  ParseOk(JInt(DigitsValue(s, k, e, 0)), e)

RECURSIVE ParseValue(_, _), ArrayItems(_, _, _), ObjectPairs(_, _, _)

\* the value that starts at k (no whitespace is skipped before it)
ParseValue(s, k) ==
    LET c == At(s, k)
    IN  IF c = "\"" THEN ScanString(s, k + 1, <<>>)
        ELSE IF c = "{"
             THEN LET k1 == SkipClass(s, k + 1, Whitespace)
                  IN  IF At(s, k1) = "}" THEN ParseOk(JDict(<<>>, <<>>), k1 + 1)
                      ELSE ObjectPairs(s, k1, JDict(<<>>, <<>>))
        ELSE IF c = "["
             THEN LET k1 == SkipClass(s, k + 1, Whitespace)
                  IN  IF At(s, k1) = "]" THEN ParseOk(JList(<<>>), k1 + 1)
                      ELSE ArrayItems(s, k1, <<>>)
        ELSE IF HasPrefixAt(s, k, <<"n", "u", "l", "l">>) THEN ParseOk(JNull, k + 4)
        ELSE IF HasPrefixAt(s, k, <<"t", "r", "u", "e">>) THEN ParseOk(JBool(TRUE), k + 4)
        ELSE IF HasPrefixAt(s, k, <<"f", "a", "l", "s", "e">>) THEN ParseOk(JBool(FALSE), k + 5)
        ELSE IF c \in DigitSet THEN ParseNumber(s, k)
        ELSE ParseFail

\* the items of an array from k on, up to its closing bracket
ArrayItems(s, k, acc) ==
    LET r == ParseValue(s, k)
    IN  IF ~r.ok THEN ParseFail
        ELSE LET k2 == SkipClass(s, r.k, Whitespace)
             IN  IF At(s, k2) = ","
                 THEN ArrayItems(s, SkipClass(s, k2 + 1, Whitespace), Append(acc, r.v))
                 ELSE IF At(s, k2) = "]" THEN ParseOk(JList(Append(acc, r.v)), k2 + 1)
                 ELSE ParseFail

\* the "key": value pairs of an object from k on, up to its closing brace
ObjectPairs(s, k, d) ==
    IF At(s, k) /= "\"" THEN ParseFail
    ELSE LET key == ScanString(s, k + 1, <<>>)
         IN  IF ~key.ok THEN ParseFail
             ELSE LET k2 == SkipClass(s, key.k, Whitespace)
                  IN  IF At(s, k2) /= ":" THEN ParseFail
                      ELSE LET r == ParseValue(s, SkipClass(s, k2 + 1, Whitespace))
                           IN  IF ~r.ok THEN ParseFail
                               ELSE LET k4 == SkipClass(s, r.k, Whitespace)
                                        d2 == DictSet(d, key.v.s, r.v)
                                    IN  IF At(s, k4) = ","
                                        THEN ObjectPairs(s, SkipClass(s, k4 + 1, Whitespace), d2)
                                        ELSE IF At(s, k4) = "}" THEN ParseOk(d2, k4 + 1)
                                        ELSE ParseFail

\* json.loads(s): ok is FALSE where json.loads raises JSONDecodeError
json_loads(s) ==
    LET r == ParseValue(s, SkipClass(s, 1, Whitespace))
    IN  IF r.ok /\ SkipClass(s, r.k, Whitespace) = Len(s) + 1 THEN r ELSE ParseFail

\* ------------------------------------------------------------------------
\* Python's bool(), str(), repr(), hash() and iter() on those values
\* ------------------------------------------------------------------------

\* bool(v)
Truthy(v) ==
    CASE v.ty = "null" -> FALSE
      [] v.ty = "bool" -> v.b
      [] v.ty = "int"  -> v.n /= 0
      [] v.ty = "str"  -> v.s /= <<>>
      [] v.ty = "list" -> v.items /= <<>>
      [] v.ty = "dict" -> v.keys /= <<>>

\* a or b
PyOr(a, b) == IF Truthy(a) THEN a ELSE b

\* str(n) for n >= 0
RECURSIVE IntStr(_)
IntStr(n) == IF n < 10 THEN <<Digits[n + 1]>> ELSE IntStr(n \div 10) \o <<Digits[(n % 10) + 1]>>

\* repr of the characters of a str, between quotes of kind q
RECURSIVE ReprChars(_, _)
ReprChars(s, q) ==
    IF s = <<>> THEN <<>>
    ELSE LET c == Head(s)
             e == CASE c = "\\" -> <<"\\", "\\">>
                    [] c = "\n" -> <<"\\", "n">>
                    [] c = "\t" -> <<"\\", "t">>
                    [] c = "\r" -> <<"\\", "r">>
                    [] c = q    -> <<"\\", q>>
                    [] OTHER    -> <<c>>
         IN  e \o ReprChars(Tail(s), q)

\* repr(s) of a str: single quotes, double quotes when s holds ' and no "
ReprStr(s) ==
    LET has(c) == \E j \in 1..Len(s) : s[j] = c
        q == IF has("'") /\ ~has("\"") THEN "\"" ELSE "'"
    IN  <<q>> \o ReprChars(s, q) \o <<q>>

RECURSIVE PyRepr(_), ReprItems(_), ReprPairs(_, _)

\* repr(v)
PyRepr(v) ==
    CASE v.ty = "null" -> <<"N", "o", "n", "e">>
      [] v.ty = "bool" -> IF v.b THEN <<"T", "r", "u", "e">> ELSE <<"F", "a", "l", "s", "e">>
      [] v.ty = "int"  -> IntStr(v.n)
      [] v.ty = "str"  -> ReprStr(v.s)
      [] v.ty = "list" -> <<"[">> \o Join(<<",", " ">>, ReprItems(v.items)) \o <<"]">>
      [] v.ty = "dict" -> <<"{">> \o Join(<<",", " ">>, ReprPairs(v.keys, v.vals)) \o <<"}">>

ReprItems(items) ==
    IF items = <<>> THEN <<>> ELSE <<PyRepr(Head(items))>> \o ReprItems(Tail(items))

ReprPairs(keys, vals) ==
    IF keys = <<>> THEN <<>>
    ELSE <<ReprStr(Head(keys)) \o <<":", " ">> \o PyRepr(Head(vals))>>
             \o ReprPairs(Tail(keys), Tail(vals))

\* str(v)
PyStr(v) == IF v.ty = "str" THEN v.s ELSE PyRepr(v)

\* hash(v) is defined: a list or a dict as a set member raises TypeError
Hashable(v) == v.ty \notin {"list", "dict"}

\* iter(v): the items a for loop visits; ok is FALSE where it raises TypeError
Iterate(v) ==
    CASE v.ty = "list" -> [ok |-> TRUE, items |-> v.items]
      [] v.ty = "str"  -> [ok |-> TRUE, items |-> [j \in 1..Len(v.s) |-> JStr(<<v.s[j]>>)]]
      [] v.ty = "dict" -> [ok |-> TRUE, items |-> [j \in 1..Len(v.keys) |-> JStr(v.keys[j])]]
      [] OTHER         -> [ok |-> FALSE, items |-> <<>>]

\* ------------------------------------------------------------------------
\* SimplyLegal_main: the response normalizer
\* ------------------------------------------------------------------------

THINK_OPEN == <<"<", "t", "h", "i", "n", "k", ">">>
THINK_CLOSE == <<"<", "/", "t", "h", "i", "n", "k", ">">>

\* re.sub(r"<think>.*?</think>", "", text, flags=re.DOTALL) from position k on
RECURSIVE SubThink(_, _)
SubThink(s, k) ==
    LET ClosesAfter(o) == {j \in (o + Len(THINK_OPEN))..Len(s) : HasPrefixAt(s, j, THINK_CLOSE)}
        opens == {o \in k..Len(s) : HasPrefixAt(s, o, THINK_OPEN) /\ ClosesAfter(o) /= {}}
    IN  IF opens = {} THEN SubSeq(s, k, Len(s))
        ELSE LET o == SetMin(opens)
             IN  SubSeq(s, k, o - 1)
                     \o SubThink(s, SetMin(ClosesAfter(o)) + Len(THINK_CLOSE))

\* _strip_think_tags
strip_think_tags(text) == Strip(SubThink(text, 1))

FENCE == <<Backtick, Backtick, Backtick>>

\* re.sub(r"```(?:json)?\s*", "", raw) from position k on
RECURSIVE SubFences(_, _)
SubFences(s, k) ==
    LET fences == {j \in k..Len(s) : HasPrefixAt(s, j, FENCE)}
    IN  IF fences = {} THEN SubSeq(s, k, Len(s))
        ELSE LET f == SetMin(fences)
                 f1 == IF HasPrefixAt(s, f + 3, <<"j", "s", "o", "n">>) THEN f + 7 ELSE f + 3
             IN  SubSeq(s, k, f - 1) \o SubFences(s, SkipClass(s, f1, Whitespace))

\* s.replace("```", "") from position k on
RECURSIVE ReplaceFences(_, _)
ReplaceFences(s, k) ==
    LET fences == {j \in k..Len(s) : HasPrefixAt(s, j, FENCE)}
    IN  IF fences = {} THEN SubSeq(s, k, Len(s))
        ELSE LET f == SetMin(fences)
             IN  SubSeq(s, k, f - 1) \o ReplaceFences(s, f + 3)

\* line 137: cleaned
Cleaned(raw_text) == Strip(ReplaceFences(SubFences(raw_text, 1), 1))

\* re.search(r"\{.*\}", cleaned, re.DOTALL): from the first { to the last }
SearchObject(cleaned) ==
    LET opens  == {k \in 1..Len(cleaned) : cleaned[k] = "{"}
        closes == {k \in 1..Len(cleaned) : cleaned[k] = "}"}
    IN  IF opens /= {} /\ closes /= {} /\ SetMax(closes) > SetMin(opens)
        THEN [found |-> TRUE, group |-> SubSeq(cleaned, SetMin(opens), SetMax(closes))]
        ELSE [found |-> FALSE, group |-> <<>>]

HIGH == <<"h", "i", "g", "h">>
MEDIUM == <<"m", "e", "d", "i", "u", "m">>
LOW == <<"l", "o", "w">>
VALID_SEVERITIES == {HIGH, MEDIUM, LOW}

K_simplified_text == <<"s", "i", "m", "p", "l", "i", "f", "i", "e", "d", "_", "t", "e", "x", "t">>
K_red_flags == <<"r", "e", "d", "_", "f", "l", "a", "g", "s">>
K_quote == <<"q", "u", "o", "t", "e">>
K_text == <<"t", "e", "x", "t">>
K_risk == <<"r", "i", "s", "k">>
K_severity == <<"s", "e", "v", "e", "r", "i", "t", "y">>
K_risk_level == <<"r", "i", "s", "k", "_", "l", "e", "v", "e", "l">>
K_worst_case == <<"w", "o", "r", "s", "t", "_", "c", "a", "s", "e">>

\* what a call returns (exc = "none") or raises
Returned(simplified, red_flags) ==
    [exc |-> "none", simplified_text |-> simplified, red_flags |-> red_flags]
Raised(exc) == [exc |-> exc, simplified_text |-> <<>>, red_flags |-> <<>>]

\* line 159: severity not in VALID_SEVERITIES, for a hashable severity
NotValidSeverity(severity) == ~(severity.ty = "str" /\ severity.s \in VALID_SEVERITIES)

\* lines 147-167: the loop over raw_flags; exc is "TypeError" where it raises
RECURSIVE FlagsLoop(_, _)
FlagsLoop(raw_flags, red_flags) ==
    IF raw_flags = <<>> THEN [exc |-> "none", red_flags |-> red_flags]
    ELSE LET f == Head(raw_flags)
             rest == Tail(raw_flags)
         IN  IF f.ty /= "dict" THEN FlagsLoop(rest, red_flags)
             ELSE LET quote == Strip(PyStr(PyOr(DictGet(f, K_quote, JNull),
                                                DictGet(f, K_text, JStr(<<>>)))))
                      risk == Strip(PyStr(DictGet(f, K_risk, JStr(<<>>))))
                      severity == PyOr(DictGet(f, K_severity, JNull),
                                       DictGet(f, K_risk_level, JStr(LOW)))
                      worst_case == Strip(PyStr(DictGet(f, K_worst_case, JStr(<<>>))))
                  IN  IF quote = <<>> THEN FlagsLoop(rest, red_flags)
                      ELSE IF ~Hashable(severity) THEN [exc |-> "TypeError", red_flags |-> <<>>]
                      ELSE FlagsLoop(rest, Append(red_flags,
                               [quote |-> quote, risk |-> risk,
                                severity |-> IF NotValidSeverity(severity) THEN LOW
                                             ELSE severity.s,
                                worst_case |-> worst_case]))

\* _parse_llm_response
parse_llm_response(raw_text) ==
    LET match == SearchObject(Cleaned(raw_text))
        loaded == json_loads(match.group)
        obj == loaded.v
        simplified == Strip(PyStr(DictGet(obj, K_simplified_text, JStr(<<>>))))
        raw_flags == Iterate(DictGet(obj, K_red_flags, JList(<<>>)))
        loop == FlagsLoop(raw_flags.items, <<>>)
    IN  IF match.found /\ loaded.ok
        THEN IF ~raw_flags.ok THEN Raised("TypeError")
             ELSE IF loop.exc /= "none" THEN Raised(loop.exc)
             ELSE IF simplified /= <<>> THEN Returned(simplified, loop.red_flags)
             ELSE Returned(raw_text, <<>>)
        ELSE Returned(raw_text, <<>>)

\* ------------------------------------------------------------------------
\* SimplyLegal_main.process_text: one request, step by step
\* ------------------------------------------------------------------------

NoReturn == [status |-> "none"]
NoError == [exc |-> "none", chunk |-> 0]
NotParsed == Raised("unset")

\* line 256: all_red_flags.extend(result["red_flags"])
ExtendBad(all, red_flags) == red_flags \o all
Extend(all, red_flags) == all \o red_flags

\* line 211: not text or not text.strip()
EmptyTextBad(text) == FALSE
EmptyText(text) == text = <<>> \/ Strip(text) = <<>>

\* what the provider may raise (lines 195-201)
ProviderErrors == {"TimeoutError", "ConnectionError", "APIError"}

\* completions the provider returns in the pipeline runs
R_P1 == <<"{", "\"", "s", "i", "m", "p", "l", "i", "f", "i", "e", "d", "_", "t", "e", "x", "t", "\"", ":", "\"", "P", "1", "\"", ",", "\"", "r", "e", "d", "_", "f", "l", "a", "g", "s", "\"", ":", "[", "]", "}">>
R_P2 == <<"{", "\"", "s", "i", "m", "p", "l", "i", "f", "i", "e", "d", "_", "t", "e", "x", "t", "\"", ":", "\"", "P", "2", "\"", ",", "\"", "r", "e", "d", "_", "f", "l", "a", "g", "s", "\"", ":", "[", "{", "\"", "q", "u", "o", "t", "e", "\"", ":", "\"", "x", "\"", ",", "\"", "r", "i", "s", "k", "\"", ":", "\"", "y", "\"", ",", "\"", "s", "e", "v", "e", "r", "i", "t", "y", "\"", ":", "\"", "h", "i", "g", "h", "\"", ",", "\"", "w", "o", "r", "s", "t", "_", "c", "a", "s", "e", "\"", ":", "\"", "z", "\"", "}", "]", "}">>
R_Two == <<"<", "t", "h", "i", "n", "k", ">", "{", "}", "<", "/", "t", "h", "i", "n", "k", ">", "{", "\"", "s", "i", "m", "p", "l", "i", "f", "i", "e", "d", "_", "t", "e", "x", "t", "\"", ":", " ", "\"", "b", "\"", ",", " ", "\"", "r", "e", "d", "_", "f", "l", "a", "g", "s", "\"", ":", " ", "[", "{", "\"", "t", "e", "x", "t", "\"", ":", "\"", "t", "\"", ",", "\"", "r", "i", "s", "k", "_", "l", "e", "v", "e", "l", "\"", ":", "\"", "m", "e", "d", "i", "u", "m", "\"", "}", ",", "{", "\"", "q", "u", "o", "t", "e", "\"", ":", "\"", "q", "\"", "}", "]", "}">>
R_Plain == <<"H", "i", " ">>
R_Blank == <<" ">>
R_NullFlags == <<"{", "\"", "s", "i", "m", "p", "l", "i", "f", "i", "e", "d", "_", "t", "e", "x", "t", "\"", ":", "\"", "a", "\"", ",", "\"", "r", "e", "d", "_", "f", "l", "a", "g", "s", "\"", ":", "n", "u", "l", "l", "}">>

ProviderCompletions == {R_P1, R_P2, R_Two, R_Plain, R_Blank, R_NullFlags}

\* the document of the two-paragraph scenario
TwoParagraphs == <<"P", "a", "r", "a", "g", "r", "a", "p", "h", " ", "o", "n", "e", ".", "\n", "\n", "P", "a", "r", "a", "g", "r", "a", "p", "h", " ", "t", "w", "o", ".">>

\* a document of three chunks
ThreeSentences == <<"a", ".", " ", "a", ".", " ", "a", ".">>

MaxDocLen == 3
MaxDocChunkSize == 2

\* <<document, max_chunk_size>> of the pipeline runs
Documents ==
    {<<TwoParagraphs, m>> : m \in {1, 13, 14, 20, 29, 30, 100}}
        \cup {<<ThreeSentences, 2>>}
        \cup {<<t, m>> : t \in UNION {[1..n -> Alphabet] : n \in 0..MaxDocLen},
                         m \in 1..MaxDocChunkSize}

Init ==
    /\ \E d \in Documents : input_text = d[1] /\ max_chunk_size = d[2]
    /\ enable_chunking \in BOOLEAN
    /\ chunks = <<>>
    /\ merged = None
    /\ pc = "Idle"
    /\ i = 0
    /\ simplified_parts = <<>>
    /\ all_red_flags = <<>>
    /\ raw = None
    /\ parsed = NotParsed
    /\ calls = <<>>
    /\ completions = <<>>
    /\ provider_fault = 0
    /\ is_busy = FALSE
    /\ returned = NoReturn
    /\ error = NoError

\* lines 245-251: chunk the text, start the loop (i stays unbound, 0, when
\* there is no chunk)
ProcessText ==
    /\ pc = "Idle"
    /\ chunks' = chunk_text(input_text, max_chunk_size, enable_chunking)
    /\ simplified_parts' = <<>>
    /\ all_red_flags' = <<>>
    /\ i' = IF chunks' = <<>> THEN 0 ELSE 1
    /\ pc' = IF chunks' = <<>> THEN "Merging" ELSE "Calling"
    /\ UNCHANGED <<max_chunk_size, enable_chunking, input_text, merged, raw, parsed,
                   calls, completions, provider_fault, is_busy, returned, error>>

\* lines 254, 182-186: _ask_and_parse(chunk) sends the prompt for chunk i
AskProvider ==
    /\ pc = "Calling"
    /\ is_busy' = TRUE
    /\ calls' = Append(calls, i)
    /\ pc' = "InFlight"
    /\ UNCHANGED <<max_chunk_size, enable_chunking, input_text, chunks, merged, i,
                   simplified_parts, all_red_flags, raw, parsed, completions,
                   provider_fault, returned, error>>

\* line 186: the provider returns a completion
ProviderReturns ==
    /\ pc = "InFlight"
    /\ \E r \in ProviderCompletions :
          /\ raw' = r
          /\ completions' = Append(completions, r)
    /\ pc' = "Normalizing"
    /\ UNCHANGED <<max_chunk_size, enable_chunking, input_text, chunks, merged, i,
                   simplified_parts, all_red_flags, parsed, calls, provider_fault,
                   is_busy, returned, error>>

\* the exception leaves _ask_and_parse (lines 195-203) and process_text (257-259)
ProviderRaisesBad ==
    /\ pc = "InFlight"
    /\ \E e \in ProviderErrors : error' = [exc |-> e, chunk |-> i]
    /\ provider_fault' = i
    /\ is_busy' = FALSE
    /\ i' = IF i = Len(chunks) THEN i ELSE i + 1
    /\ pc' = IF i = Len(chunks) THEN "Merging" ELSE "Calling"
    /\ UNCHANGED <<max_chunk_size, enable_chunking, input_text, chunks, merged,
                   simplified_parts, all_red_flags, raw, parsed, calls, completions,
                   returned>>

\* line 186: the provider call raises; the exception leaves _ask_and_parse
\* (lines 195-203) and process_text (lines 257-259)
ProviderRaises ==
    /\ pc = "InFlight"
    /\ \E e \in ProviderErrors : error' = [exc |-> e, chunk |-> i]
    /\ provider_fault' = i
    /\ is_busy' = FALSE
    /\ pc' = "Failed"
    /\ UNCHANGED <<max_chunk_size, enable_chunking, input_text, chunks, merged, i,
                   simplified_parts, all_red_flags, raw, parsed, calls, completions,
                   returned>>

\* lines 187-193: result of _strip_think_tags, then _parse_llm_response
Normalized(r) == parse_llm_response(strip_think_tags(r))

\* a failed normalization asks the provider once more for the same chunk
NormalizeBad ==
    /\ pc = "Normalizing"
    /\ raw' = strip_think_tags(raw)
    /\ parsed' = Normalized(raw)
    /\ is_busy' = FALSE
    /\ IF parsed'.exc = "none"
       THEN /\ simplified_parts' = Append(simplified_parts, parsed'.simplified_text)
            /\ all_red_flags' = Extend(all_red_flags, parsed'.red_flags)
            /\ i' = IF i = Len(chunks) THEN i ELSE i + 1
            /\ pc' = IF i = Len(chunks) THEN "Merging" ELSE "Calling"
            /\ error' = error
       ELSE /\ error' = [exc |-> parsed'.exc, chunk |-> i]
            /\ pc' = IF Len(calls) <= i THEN "Calling" ELSE "Failed"
            /\ UNCHANGED <<simplified_parts, all_red_flags, i>>
    /\ UNCHANGED <<max_chunk_size, enable_chunking, input_text, chunks, merged,
                   calls, completions, provider_fault, returned>>

\* lines 187-203 and 255-259: normalize the completion; append its text and
\* flags, or let the exception leave process_text
Normalize ==
    /\ pc = "Normalizing"
    /\ raw' = strip_think_tags(raw)
    /\ parsed' = Normalized(raw)
    /\ is_busy' = FALSE
    /\ IF parsed'.exc = "none"
       THEN /\ simplified_parts' = Append(simplified_parts, parsed'.simplified_text)
            /\ all_red_flags' = Extend(all_red_flags, parsed'.red_flags)
            /\ i' = IF i = Len(chunks) THEN i ELSE i + 1
            /\ pc' = IF i = Len(chunks) THEN "Merging" ELSE "Calling"
            /\ error' = error
       ELSE /\ error' = [exc |-> parsed'.exc, chunk |-> i]
            /\ pc' = "Failed"
            /\ UNCHANGED <<simplified_parts, all_red_flags, i>>
    /\ UNCHANGED <<max_chunk_size, enable_chunking, input_text, chunks, merged,
                   calls, completions, provider_fault, returned>>

\* line 261
MergeParts ==
    /\ pc = "Merging"
    /\ merged' = merge_chunks(simplified_parts, DefaultSeparator)
    /\ pc' = "Synthesizing"
    /\ UNCHANGED <<max_chunk_size, enable_chunking, input_text, chunks, i,
                   simplified_parts, all_red_flags, raw, parsed, calls, completions,
                   provider_fault, is_busy, returned, error>>

\* lines 262-269 and tts_to_bytes (209-231): empty text raises ValueError; the
\* engine yields the audio or fails
Synthesize ==
    /\ pc = "Synthesizing"
    /\ \/ /\ EmptyText(merged)
          /\ error' = [exc |-> "ValueError", chunk |-> 0]
          /\ pc' = "Failed"
          /\ returned' = returned
       \/ /\ ~EmptyText(merged)
          /\ error' = [exc |-> "AudioError", chunk |-> 0]
          /\ pc' = "Failed"
          /\ returned' = returned
       \/ /\ ~EmptyText(merged)
          /\ returned' = [status |-> "returned", text |-> merged,
                          red_flags |-> all_red_flags, audio |-> "wav",
                          chunks_processed |-> Len(chunks)]
          /\ pc' = "Done"
          /\ error' = error
    /\ UNCHANGED <<max_chunk_size, enable_chunking, input_text, chunks, merged, i,
                   simplified_parts, all_red_flags, raw, parsed, calls, completions,
                   provider_fault, is_busy>>

Next ==
    \/ ProcessText
    \/ AskProvider
    \/ ProviderReturns
    \/ ProviderRaises
    \/ Normalize
    \/ MergeParts
    \/ Synthesize

Spec == Init /\ [][Next]_vars

\* the variables a run of the chunker alone leaves as process_text starts them
UnusedByChunker ==
    /\ i = 0
    /\ simplified_parts = <<>>
    /\ all_red_flags = <<>>
    /\ raw = None
    /\ parsed = NotParsed
    /\ calls = <<>>
    /\ completions = <<>>
    /\ provider_fault = 0
    /\ is_busy = FALSE
    /\ returned = NoReturn
    /\ error = NoError

\* the variables a run of the normalizer alone leaves as they start
UnusedByNormalizer ==
    /\ max_chunk_size = 1000
    /\ enable_chunking = TRUE
    /\ input_text = <<>>
    /\ chunks = <<>>
    /\ merged = None
    /\ i = 0
    /\ simplified_parts = <<>>
    /\ all_red_flags = <<>>
    /\ calls = <<>>
    /\ provider_fault = 0
    /\ is_busy = FALSE
    /\ returned = NoReturn
    /\ error = NoError

\* ------------------------------------------------------------------------
\* The chunker on its own (test_chunking.py): chunk_text, then merge_chunks
\* ------------------------------------------------------------------------

MaxTextLen == 6
MaxChunkSize == 4

Texts == UNION {[1..n -> Alphabet] : n \in 0..MaxTextLen}

ChunkerInit ==
    /\ max_chunk_size \in 1..MaxChunkSize
    /\ enable_chunking \in BOOLEAN
    /\ input_text \in Texts
    /\ chunks = <<>>
    /\ merged = None
    /\ pc = "Idle"
    /\ UnusedByChunker

CallChunkText ==
    /\ pc = "Idle"
    /\ chunks' = chunk_text(input_text, max_chunk_size, enable_chunking)
    /\ pc' = "Chunked"
    /\ UNCHANGED <<max_chunk_size, enable_chunking, input_text, merged, requestVars>>

CallMergeChunks ==
    /\ pc = "Chunked"
    /\ merged' = merge_chunks(chunks, DefaultSeparator)
    /\ pc' = "Merged"
    /\ UNCHANGED <<max_chunk_size, enable_chunking, input_text, chunks, requestVars>>

ChunkerNext == CallChunkText \/ CallMergeChunks

ChunkerSpec == ChunkerInit /\ [][ChunkerNext]_vars

\* ------------------------------------------------------------------------
\* The normalizer on its own: _strip_think_tags, then _parse_llm_response,
\* on the completions a provider may return
\* ------------------------------------------------------------------------

\* JSON text
Q(s) == <<"\"">> \o s \o <<"\"">>
Field(key, value) == Q(key) \o <<":">> \o value
Obj(fields) == <<"{">> \o Join(<<",">>, fields) \o <<"}">>
Arr(items) == <<"[">> \o Join(<<",", " ">>, items) \o <<"]">>

T_null == <<"n", "u", "l", "l">>
T_bogus == <<"b", "o", "g", "u", "s">>

\* the fields of a red_flags entry: absent, or present with one of these values
QuoteFields ==
    {<<>>} \cup {<<Field(K_quote, v)>> : v \in {Q(<<"x">>), Q(<<" ", "x", " ">>), Q(<<>>), T_null}}
TextFields ==
    {<<>>} \cup {<<Field(K_text, v)>> : v \in {Q(<<"t">>), Q(<<" ">>), T_null}}
DetailFields ==
    {<<>>, <<Field(K_risk, Q(<<"y">>)), Field(K_worst_case, Q(<<" ", "z">>))>>}
SeverityFields ==
    {<<>>} \cup {<<Field(K_severity, v)>> :
                    v \in {Q(HIGH), Q(MEDIUM), Q(T_bogus), Arr(<<Q(HIGH)>>), <<"5">>}}
RiskLevelFields ==
    {<<>>} \cup {<<Field(K_risk_level, v)>> :
                    v \in {Q(HIGH), Q(LOW), Q(T_bogus), <<"[", "]">>}}

\* the entries of a red_flags list: objects, and values that are no object
Entries ==
    {Obj(q \o t \o d \o s \o r) : q \in QuoteFields, t \in TextFields, d \in DetailFields,
                                  s \in SeverityFields, r \in RiskLevelFields}
        \cup {Q(<<"s">>), <<"5">>, T_null}

FewEntries ==
    { Obj(<<Field(K_quote, Q(<<"q">>)), Field(K_severity, Q(HIGH))>>),
      Obj(<<Field(K_text, Q(<<"o">>)), Field(K_risk_level, Q(MEDIUM))>>),
      Obj(<<>>) }

\* values of red_flags that are no list of entries
OddFlagValues ==
    {<<"[", "]">>, T_null, <<"5">>, Q(<<"a", "b">>), <<"t", "r", "u", "e">>,
     Obj(<<Field(K_quote, Q(<<"x">>))>>)}

FlagValues ==
    OddFlagValues
        \cup {Arr(<<e>>) : e \in Entries}
        \cup {Arr(<<a, e>>) : a \in FewEntries, e \in Entries}
        \cup {Arr(<<e, a>>) : a \in FewEntries, e \in Entries}

SimplifiedFields ==
    {<<>>} \cup {<<Field(K_simplified_text, v)>> :
                    v \in {Q(<<"P", "1">>), Q(<<>>), Q(<<" ">>), Q(<<" ", "a", " ">>), T_null,
                           <<"0">>, Arr(<<Q(<<"a">>)>>)}}

FlagFields ==
    {<<>>} \cup {<<Field(K_red_flags, v)>> :
                    v \in OddFlagValues \cup {Arr(<<a>>) : a \in FewEntries}}

\* objects with every shape of simplified_text, and few shapes of red_flags
SmallBodies == {Obj(s \o f) : s \in SimplifiedFields, f \in FlagFields}

\* objects with a usable or an empty simplified_text, and every red_flags value
FlagBodies ==
    {Obj(<<Field(K_simplified_text, Q(s)), Field(K_red_flags, v)>>) :
        s \in {<<"P", "1">>, <<>>}, v \in FlagValues}

\* a completion around a JSON text: bare, fenced, after a reasoning block,
\* inside prose, and all of it
Wrapped(b) ==
    { b,
      FENCE \o <<"j", "s", "o", "n", "\n">> \o b \o <<"\n">> \o FENCE,
      <<"<", "t", "h", "i", "n", "k", ">", "{", "\"", "a", "\"", "}", "<", "/", "t", "h", "i", "n", "k", ">", "\n">> \o b,
      <<"S", "u", "r", "e", ":", " ">> \o b \o <<" ", "o", "k">>,
      <<"<", "t", "h", "i", "n", "k", ">", "x", "<", "/", "t", "h", "i", "n", "k", ">", " ">> \o FENCE \o <<" ">> \o b \o FENCE \o <<" ", "{", "n", "o", "}", " ">> }

\* every prefix of s
Prefixes(s) == {SubSeq(s, 1, n) : n \in 0..Len(s)}

RawCompletions ==
    (UNION {Wrapped(b) : b \in SmallBodies})
        \cup FlagBodies
        \cup Prefixes(R_P2) \cup Prefixes(R_Two)
        \cup ProviderCompletions
        \cup {<<"<", "t", "h", "i", "n", "k", ">", "a", "<", "/", "t", "h", "i", "n", "k", ">">>, <<"<", "t", "h", "i", "n", "k", ">", "a">>, <<"}", " ", "{">>, <<"{", "\"", "s", "i", "m", "p", "l", "i", "f", "i", "e", "d", "_", "t", "e", "x", "t", "\"", ":", "\"", "a", "\n", "b", "\"", "}">>,
              <<"{", "\"", "s", "i", "m", "p", "l", "i", "f", "i", "e", "d", "_", "t", "e", "x", "t", "\"", ":", "\"", "a", "\"", ",", "\"", "r", "e", "d", "_", "f", "l", "a", "g", "s", "\"", ":", "[", "]", ",", "}">>}

NormalizerInit ==
    /\ raw \in RawCompletions
    /\ completions = <<>>
    /\ parsed = NotParsed
    /\ pc = "Raw"
    /\ UnusedByNormalizer

\* line 187
CallStripThinkTags ==
    /\ pc = "Raw"
    /\ completions' = <<raw>>
    /\ raw' = strip_think_tags(raw)
    /\ pc' = "Stripped"
    /\ UNCHANGED <<chunkerVars, parsed, i, simplified_parts, all_red_flags, calls,
                   provider_fault, is_busy, returned, error>>

\* line 188
CallParseLLMResponse ==
    /\ pc = "Stripped"
    /\ parsed' = parse_llm_response(raw)
    /\ pc' = "Parsed"
    /\ UNCHANGED <<chunkerVars, raw, completions, i, simplified_parts, all_red_flags,
                   calls, provider_fault, is_busy, returned, error>>

NormalizerNext == CallStripThinkTags \/ CallParseLLMResponse

NormalizerSpec == NormalizerInit /\ [][NormalizerNext]_vars

\* ------------------------------------------------------------------------
\* Properties of the chunker
\* ------------------------------------------------------------------------

Chunked == pc \in {"Chunked", "Merged"}

\* s holds no sentence boundary (a terminator followed by whitespace): it is
\* at most one sentence
IsSingleSentence(s) ==
    \A k \in 1..(Len(s) - 1) : ~(s[k] \in Terminators /\ s[k + 1] \in Whitespace)

\* C4: when the text is longer than max_chunk_size and chunking is enabled,
\* every chunk chunk_text returns is at most max_chunk_size long, unless it is
\* one single sentence; a chunk of two or more sentences never exceeds it.
C4_ChunksBounded ==
    (Chunked /\ enable_chunking /\ Len(input_text) > max_chunk_size) =>
        \A k \in 1..Len(chunks) :
            Len(chunks[k]) <= max_chunk_size \/ IsSingleSentence(chunks[k])

\* an oversized paragraph whose sentences were packed into one chunk
C4_Witness ==
    /\ pc = "Chunked" /\ enable_chunking /\ Len(input_text) > max_chunk_size
    /\ Len(chunks) = 1
    /\ ~IsSingleSentence(chunks[1])
    /\ chunks[1] /= Strip(input_text)
    /\ Len(chunks[1]) = max_chunk_size

\* C5: a non-empty text that is at most max_chunk_size long, or any non-empty
\* text when chunking is disabled, comes back as exactly one chunk, unchanged.
C5_ShortTextOneChunk ==
    (Chunked /\ input_text /= <<>>
        /\ (~enable_chunking \/ Len(input_text) <= max_chunk_size)) =>
        chunks = <<input_text>>

\* a text of exactly max_chunk_size characters that stripping would change
C5_Witness ==
    /\ pc = "Chunked" /\ enable_chunking
    /\ Len(input_text) = max_chunk_size
    /\ input_text[1] \in Whitespace
    /\ chunks = <<input_text>>

\* s holds two newlines in a row
HasParagraphBreak(s) == \E k \in 1..(Len(s) - 1) : s[k] = "\n" /\ s[k + 1] = "\n"

\* The trimmed non-empty paragraphs and sentences of t, in order: t cut at
\* every whitespace run that is at an end of t, holds a paragraph break or
\* follows a terminator. Whitespace inside a segment is kept as it is.
RECURSIVE SegmentsFrom(_, _, _)
SegmentsFrom(t, k, piece) ==
    LET emit == IF piece = <<>> THEN <<>> ELSE <<piece>>
    IN  IF k > Len(t) THEN emit
        ELSE IF t[k] \notin Whitespace THEN SegmentsFrom(t, k + 1, Append(piece, t[k]))
        ELSE LET e == SkipClass(t, k, Whitespace)
                 run == SubSeq(t, k, e - 1)
             IN  IF k = 1 \/ e > Len(t) \/ t[k - 1] \in Terminators
                        \/ HasParagraphBreak(run)
                 THEN emit \o SegmentsFrom(t, e, <<>>)
                 ELSE SegmentsFrom(t, e, piece \o run)

Segments(t) == SegmentsFrom(t, 1, <<>>)

\* C9: merge_chunks(chunk_text(text)) holds the trimmed non-empty paragraphs
\* and sentences of text, in their order, none lost, duplicated or reordered.
C9_MergeSplitKeepsSegments ==
    pc = "Merged" => Segments(merged) = Segments(input_text)

\* three segments went through paragraph and sentence splitting, and the
\* merged text is not the input
C9_Witness ==
    /\ pc = "Merged" /\ Len(chunks) >= 2
    /\ Len(Segments(input_text)) >= 3
    /\ merged /= input_text
    /\ \E k \in 1..Len(chunks) : ~IsSingleSentence(chunks[k])

\* ------------------------------------------------------------------------
\* Properties of the normalizer
\* ------------------------------------------------------------------------

\* the JSON object _parse_llm_response extracts from the stripped completion t:
\* the first-{-to-last-} span of the fence-stripped text, parsed
Extracted(t) ==
    LET match == SearchObject(Cleaned(t))
    IN  IF match.found THEN json_loads(match.group) ELSE ParseFail

\* v is a string that is not empty once trimmed
NonEmptyStr(v) == v.ty = "str" /\ Strip(v.s) /= <<>>

\* the object holds a non-empty simplified_text
HasSimplifiedText(obj) == NonEmptyStr(DictGet(obj, K_simplified_text, JNull))

\* the entries of the object's red_flags
EntriesOf(obj) ==
    LET v == DictGet(obj, K_red_flags, JList(<<>>))
    IN  IF v.ty = "list" THEN v.items ELSE <<>>

\* the field an entry's value is read from: the new one unless it is empty or
\* missing, then the legacy one
Chosen(f, new, legacy) ==
    IF Truthy(DictGet(f, new, JNull)) THEN DictGet(f, new, JNull)
    ELSE DictGet(f, legacy, JNull)

\* an entry is a mapping with a usable quote
Usable(f) == f.ty = "dict" /\ NonEmptyStr(Chosen(f, K_quote, K_text))

\* a detail field of an entry, trimmed, empty when missing
Detail(f, key) == IF DictGet(f, key, JNull).ty = "str" THEN Strip(DictGet(f, key, JNull).s) ELSE <<>>

\* the RedFlag of a usable entry
FlagOf(f) ==
    LET sev == Chosen(f, K_severity, K_risk_level)
    IN  [quote |-> Strip(Chosen(f, K_quote, K_text).s),
         risk |-> Detail(f, K_risk),
         severity |-> IF sev.ty = "str" /\ sev.s \in VALID_SEVERITIES THEN sev.s ELSE LOW,
         worst_case |-> Detail(f, K_worst_case)]

\* the RedFlags of the usable entries, in input order
RECURSIVE ExpectedFlags(_)
ExpectedFlags(entries) ==
    IF entries = <<>> THEN <<>>
    ELSE IF Usable(Head(entries)) THEN <<FlagOf(Head(entries))>> \o ExpectedFlags(Tail(entries))
    ELSE ExpectedFlags(Tail(entries))

\* C2: whatever the completion holds, _strip_think_tags followed by
\* _parse_llm_response returns a ParsedResult and never raises.
C2_NormalizeNeverRaises ==
    pc = "Parsed" => parsed.exc = "none"

\* C7: when a JSON object with a non-empty simplified_text is extracted, a
\* result is returned, every flag of it has a non-empty trimmed quote and a
\* severity among high, medium, low, and the flags are exactly the entries that
\* are mappings with a usable quote, in input order.
C7_FlagsAreUsableEntries ==
    (pc = "Parsed" /\ Extracted(raw).ok /\ HasSimplifiedText(Extracted(raw).v)) =>
        /\ parsed.exc = "none"
        /\ \A k \in 1..Len(parsed.red_flags) :
              /\ parsed.red_flags[k].quote /= <<>>
              /\ parsed.red_flags[k].quote = Strip(parsed.red_flags[k].quote)
              /\ parsed.red_flags[k].severity \in VALID_SEVERITIES
        /\ parsed.red_flags = ExpectedFlags(EntriesOf(Extracted(raw).v))

\* the parsed simplified_text is empty or absent
NoSimplifiedText(obj) ==
    LET v == DictGet(obj, K_simplified_text, JStr(<<>>))
    IN  v.ty = "str" /\ Strip(v.s) = <<>>

\* C8: when no {...} span exists, or the span is no JSON, or the parsed
\* simplified_text is empty or absent, _parse_llm_response returns the whole
\* stripped completion as simplified_text, with no red flags.
C8_FallbackReturnsRaw ==
    (pc = "Parsed" /\ (~Extracted(raw).ok \/ NoSimplifiedText(Extracted(raw).v))) =>
        parsed = Returned(raw, <<>>)

\* every entry is a mapping with a non-empty text
LegacyEntries(entries) ==
    \A k \in 1..Len(entries) :
        /\ entries[k].ty = "dict"
        /\ NonEmptyStr(DictGet(entries[k], K_text, JNull))

\* C10: of a JSON response whose red_flags entries use the legacy names, every
\* entry with a non-empty text comes back as a RedFlag with that text as quote
\* and its risk_level as severity (low when it is none of high, medium, low);
\* a non-empty quote or severity beside them is the one used.
C10_LegacyNamesAccepted ==
    (pc = "Parsed" /\ Extracted(raw).ok /\ HasSimplifiedText(Extracted(raw).v)
        /\ EntriesOf(Extracted(raw).v) /= <<>>
        /\ LegacyEntries(EntriesOf(Extracted(raw).v))) =>
        /\ parsed.exc = "none"
        /\ parsed.red_flags = ExpectedFlags(EntriesOf(Extracted(raw).v))

\* ------------------------------------------------------------------------
\* Properties of process_text
\* ------------------------------------------------------------------------

\* C1: once the provider call for chunk k has failed, process_text has failed
\* and returned nothing, the provider was called for chunks 1..k and no other,
\* and nothing was merged or synthesized.
C1_ProviderFailureAborts ==
    provider_fault /= 0 =>
        /\ pc = "Failed"
        /\ returned = NoReturn
        /\ calls = [k \in 1..provider_fault |-> k]
        /\ merged = None
        /\ error.chunk = provider_fault

\* the call for the second of three chunks failed, one chunk was already done
C1_Witness ==
    /\ provider_fault = 2 /\ Len(chunks) = 3
    /\ pc = "Failed"
    /\ Len(simplified_parts) = 1 /\ Len(all_red_flags) > 0

TwoChunks == <<<<"P", "a", "r", "a", "g", "r", "a", "p", "h", " ", "o", "n", "e", ".">>, <<"P", "a", "r", "a", "g", "r", "a", "p", "h", " ", "t", "w", "o", ".">>>>

HighFlag == [quote |-> <<"x">>, risk |-> <<"y">>, severity |-> HIGH, worst_case |-> <<"z">>]

\* what the scenario expects of the two chunks and of the result
TwoChunkScenario ==
    /\ pc /= "Idle" => chunks = TwoChunks
    /\ (pc = "Done" /\ completions = <<R_P1, R_P2>>) =>
          /\ returned.text = <<"P", "1", "\n", "\n", "P", "2">>
          /\ returned.red_flags = <<HighFlag>>
          /\ returned.chunks_processed = 2

\* C3 as stated: with max_size = 100 and chunking enabled the two-paragraph
\* input gives the two chunks, and the two responses give P1\n\nP2, the one
\* high flag and chunks_processed = 2.
C3_AsStated ==
    (input_text = TwoParagraphs /\ enable_chunking /\ max_chunk_size = 100) =>
        TwoChunkScenario

\* C3, amended: that holds for a max_size below the input's 30 characters;
\* from 30 on (so at 100) the input stays one chunk.
C3_TwoParagraphScenario ==
    (input_text = TwoParagraphs /\ enable_chunking) =>
        /\ max_chunk_size < Len(TwoParagraphs) => TwoChunkScenario
        /\ (max_chunk_size >= Len(TwoParagraphs) /\ pc /= "Idle") =>
              chunks = <<TwoParagraphs>>

C3_Witness ==
    /\ input_text = TwoParagraphs /\ enable_chunking /\ max_chunk_size = 20
    /\ pc = "Done" /\ completions = <<R_P1, R_P2>>
    /\ returned.chunks_processed = 2

\* the simplified_text normalization produced for each completion
PartsOf(cs) == [k \in 1..Len(cs) |-> Normalized(cs[k]).simplified_text]

\* the red_flags normalization produced for each completion, one after another
RECURSIVE FlagsOf(_)
FlagsOf(cs) ==
    IF cs = <<>> THEN <<>> ELSE Normalized(Head(cs)).red_flags \o FlagsOf(Tail(cs))

\* C6: a returned result holds the chunks' red_flags concatenated in chunk
\* order, the merge_chunks of the chunks' simplified_text in chunk order, and
\* the number of chunks.
C6_ResultAggregatesInOrder ==
    pc = "Done" =>
        /\ Len(completions) = Len(chunks)
        /\ returned.red_flags = FlagsOf(completions)
        /\ returned.text = merge_chunks(PartsOf(completions), DefaultSeparator)
        /\ returned.chunks_processed = Len(chunks)

\* two chunks, both with flags of their own
C6_Witness ==
    /\ pc = "Done"
    /\ completions = <<R_Two, R_P2>>
    /\ Len(returned.red_flags) = 3

\* ------------------------------------------------------------------------
\* The busy flag, empty merged text, the order of the steps
\* ------------------------------------------------------------------------

\* process_text has started and has neither returned nor raised
InProgress == pc \in {"Calling", "InFlight", "Normalizing", "Merging", "Synthesizing"}

\* C11: while a process_text request is in progress on the instance, from its
\* start until it returns or fails and also between two chunks, the instance
\* is marked busy (the guard that keeps a second request out).
C11_BusyWhileInProgress == InProgress => is_busy

\* C12: when the merged simplified text is empty or whitespace-only, synthesis
\* fails with the empty-text error, process_text propagates it and returns
\* nothing; a returned result never has an empty text.
C12_EmptyMergedTextFails ==
    /\ (merged /= None /\ EmptyText(merged) /\ pc /= "Synthesizing") =>
           /\ pc = "Failed"
           /\ error.exc = "ValueError"
           /\ returned = NoReturn
    /\ returned /= NoReturn =>
           /\ returned.text /= <<>>
           /\ Strip(returned.text) /= <<>>

\* two chunks, both completions normalize to an empty simplified_text
C12_Witness ==
    /\ pc = "Failed"
    /\ error.exc = "ValueError"
    /\ Len(chunks) = 2
    /\ completions = <<R_Blank, R_Blank>>
    /\ merged = <<>>

\* the steps one request may take, as <<from, to>>
StepOrder ==
    {<<"Idle", "Calling">>, <<"Idle", "Merging">>,
     <<"Calling", "InFlight">>,
     <<"InFlight", "Normalizing">>, <<"InFlight", "Failed">>,
     <<"Normalizing", "Calling">>, <<"Normalizing", "Merging">>,
     <<"Normalizing", "Failed">>,
     <<"Merging", "Synthesizing">>,
     <<"Synthesizing", "Done">>, <<"Synthesizing", "Failed">>}

\* provider calls issued that have neither returned nor raised
CallsInFlight ==
    Len(calls) - Len(completions) - (IF provider_fault /= 0 THEN 1 ELSE 0)

\* completions whose normalization has ended, by a result or by an exception
NormalizedCount ==
    Len(simplified_parts)
        + (IF pc = "Failed" /\ error.exc \notin ProviderErrors \cup {"ValueError", "AudioError"}
           THEN 1 ELSE 0)

\* the calls so far are for chunks 1, 2, ... in index order, one each; a call
\* is in flight only when all earlier completions have been normalized
CallsInOrder ==
    /\ calls = [k \in 1..Len(calls) |-> k]
    /\ Len(calls) <= Len(chunks)
    /\ CallsInFlight \in {0, 1}
    /\ CallsInFlight = 1 <=> pc = "InFlight"
    /\ CallsInFlight = 1 => NormalizedCount = Len(calls) - 1
    /\ pc = "Normalizing" => NormalizedCount = Len(completions) - 1
    /\ pc \in {"Calling", "Merging", "Synthesizing", "Done"} =>
           NormalizedCount = Len(completions)
    /\ pc \in {"Merging", "Synthesizing", "Done"} =>
           calls = [k \in 1..Len(chunks) |-> k]

\* C13: the steps of one request occur in the order Chunking, then per chunk
\* in index order provider call then normalization, then Merging, then
\* Synthesizing, then Done; each chunk gets exactly one provider call, the
\* call for chunk i+1 comes after the normalization of chunk i, at most one
\* call is in flight, and nothing happens after Done or Failed.
C13_StrictStepOrder ==
    [][/\ pc \notin {"Done", "Failed"}
       /\ <<pc, pc'>> \in StepOrder
       /\ CallsInOrder'
       /\ pc /= "Idle" => chunks' = chunks]_vars

\* three chunks went through call and normalization one after the other
C13_Witness ==
    /\ pc = "Done"
    /\ Len(chunks) = 3
    /\ calls = <<1, 2, 3>>
    /\ Len(completions) = 3
    /\ Len(simplified_parts) = 3

====
